---- MODULE Spec2Model ----
(***************************************************************************)
(* A model of the pallet label batcher (src/pallet_label_batcher.py): the  *)
(* geometry resolver (load_template, default_layout), the substitution     *)
(* engine (TextBlock.build_text), the wrap budget (wrap_text_to_width),    *)
(* the compositor (render_label), the exporter (export_label) and the      *)
(* batch driver (main, process).                                           *)
(*                                                                         *)
(* Numbers.  Inch values are rationals n/d.  The model draws them from     *)
(* quarter inches, which binary floating point represents exactly, so that *)
(* width_in * dpi is exact and round() is Python 3's round: to the nearest *)
(* integer, a tie going to the even one.  The decimal literals of          *)
(* default_layout (0.3, 2.4, ...) are modelled by their exact rational     *)
(* value: at every resolution of Dpis and MainDpis the float product       *)
(* rounds to the same integer as the exact one.                            *)
(*                                                                         *)
(* Strings.  A Python str is a sequence of one-character strings.          *)
(***************************************************************************)
EXTENDS Integers, Sequences, FiniteSets, TLC

VARIABLES
    pc,        \* position of the program under the specification at hand
    template,  \* the --template argument: the JSON document, or none given
    dpi,       \* the --dpi argument
    env,       \* the environment: which fonts load, what "M" measures
    csv,       \* the rows of the CSV file load_rows has not read yet
    layout,    \* the Layout load_template returned (NoLayout before that)
    row,       \* the row process() is working on
    image,     \* the label render_label returned for it
    files,     \* the files of the output directory
    log,       \* what was printed, in order
    error,     \* the exception that left the program, and the call that raised it
    args,      \* arguments of the function a unit specification calls
    result     \* what that function returned, and the locals it computed

vars == <<pc, template, dpi, env, csv, layout, row, image, files, log, error, args, result>>

(***************************************************************************)
(* Bounds of the model.                                                    *)
(***************************************************************************)
MaxDpi == 8
MaxQuarterIn == 8

(***************************************************************************)
(* Module constants of the program.                                        *)
(***************************************************************************)
DEFAULT_DPI == 203
DEFAULT_BACKGROUND == 255
DEFAULT_QR_BOX_SIZE == 10
DEFAULT_QR_BORDER == 4

\* 4.0 and 6.0 inches, as rationals n/d
DEFAULT_LABEL_WIDTH_IN == [n |-> 4, d |-> 1]
DEFAULT_LABEL_HEIGHT_IN == [n |-> 6, d |-> 1]

(***************************************************************************)
(* Python arithmetic on the rational n/d, d > 0.                           *)
(***************************************************************************)
Max(a, b) == IF a >= b THEN a ELSE b

\* round(n/d) of Python 3 (round half to even), then int()
PyRoundHalfUp(n, d) == (2 * n + d) \div (2 * d)

PyRound(n, d) ==
    LET q == n \div d
        r == n % d
    IN  IF 2 * r < d THEN q
        ELSE IF 2 * r > d THEN q + 1
        ELSE IF q % 2 = 0 THEN q ELSE q + 1

\* int(n/d): truncation towards zero
PyTrunc(n, d) == IF n >= 0 THEN n \div d ELSE -((-n) \div d)

(***************************************************************************)
(* JSON values of a template, as json.loads returns them.                  *)
(*   t = "absent"  the key is not in its object                            *)
(*   t = "num"     the number n/d (an int when d = 1)                      *)
(*   t = "strnum"  a str that is a decimal integer literal, of value n     *)
(*   t = "str"     any other str; s is its text                            *)
(*   t = "null"    None                                                    *)
(*   t = "list"    a list; xs holds its items                              *)
(***************************************************************************)
JAbsent == [t |-> "absent", n |-> 0, d |-> 1, s |-> "", xs |-> <<>>]
JNull == [t |-> "null", n |-> 0, d |-> 1, s |-> "", xs |-> <<>>]
JNum(n, d) == [t |-> "num", n |-> n, d |-> d, s |-> "", xs |-> <<>>]
JInt(n) == JNum(n, 1)
JStrNum(n) == [t |-> "strnum", n |-> n, d |-> 1, s |-> "", xs |-> <<>>]
JStr(s) == [t |-> "str", n |-> 0, d |-> 1, s |-> s, xs |-> <<>>]
JList(xs) == [t |-> "list", n |-> 0, d |-> 1, s |-> "", xs |-> xs]

\* the decimal digits of n >= 0, most significant first
RECURSIVE Digits(_)
Digits(n) == IF n < 10 THEN <<n>> ELSE Append(Digits(n \div 10), n % 10)

(***************************************************************************)
(* Python conversions.  A conversion returns [err, n, d]: err names the    *)
(* exception it raised ("" when none) and n/d is its value.                *)
(***************************************************************************)
Ok(n, d) == [err |-> "", n |-> n, d |-> d]
Raise(e) == [err |-> e, n |-> 0, d |-> 1]

\* float(v)
PyFloat(v) ==
    CASE v.t = "num" -> Ok(v.n, v.d)
      [] v.t = "strnum" -> Ok(v.n, 1)
      [] v.t = "str" -> Raise("ValueError")
      [] OTHER -> Raise("TypeError")

\* int(v)
PyInt(v) ==
    CASE v.t = "num" -> Ok(PyTrunc(v.n, v.d), 1)
      [] v.t = "strnum" -> Ok(v.n, 1)
      [] v.t = "str" -> Raise("ValueError")
      [] OTHER -> Raise("TypeError")

\* v * dpi followed by int(round(...)): only a number survives round()
PyRoundTimes(v, k) ==
    IF v.t = "num" THEN Ok(PyRound(v.n * k, v.d), 1) ELSE Raise("TypeError")

\* what iterating v yields: [err, xs]
PyIter(v) ==
    CASE v.t = "list" -> [err |-> "", xs |-> v.xs]
      [] v.t = "strnum" ->
           [err |-> "", xs |-> [i \in 1..Len(Digits(v.n)) |-> JStrNum(Digits(v.n)[i])]]
      [] v.t = "str" -> [err |-> "", xs |-> <<JStr(v.s)>>]
      [] OTHER -> [err |-> "TypeError", xs |-> <<>>]

\* the first exception of a sequence of conversion results, "" when none
RECURSIVE FirstErr(_)
FirstErr(rs) ==
    IF rs = <<>> THEN ""
    ELSE IF Head(rs).err # "" THEN Head(rs).err ELSE FirstErr(Tail(rs))

\* tuple(int(value) for value in v): [err, xs] with xs a tuple of ints
IntTuple(v) ==
    LET it == PyIter(v)
        conv == [i \in 1..Len(it.xs) |-> PyInt(it.xs[i])]
    IN  IF it.err # "" THEN [err |-> it.err, xs |-> <<>>]
        ELSE IF FirstErr(conv) # "" THEN [err |-> FirstErr(conv), xs |-> <<>>]
        ELSE [err |-> "", xs |-> [i \in 1..Len(conv) |-> conv[i].n]]

\* dict.get(key, default)
Get(v, default) == IF v.t = "absent" THEN default ELSE v

(***************************************************************************)
(* Optional[int]: None, or an int.                                         *)
(***************************************************************************)
None == [none |-> TRUE, v |-> 0]
Some(v) == [none |-> FALSE, v |-> v]

(***************************************************************************)
(* Text templates.  A format string is a sequence of tokens: a literal     *)
(* character, or a replacement field {name}.  TText is the "text" value of *)
(* a block: t says whether it is a str (toks its tokens) or another JSON   *)
(* value.                                                                  *)
(***************************************************************************)
LitTok(c) == [lit |-> TRUE, v |-> c]
FieldTok(name) == [lit |-> FALSE, v |-> name]
Lits(cs) == [i \in 1..Len(cs) |-> LitTok(cs[i])]
TStr(toks) == [t |-> "str", toks |-> toks]
TNum == [t |-> "num", toks |-> <<>>]
TAbsent == [t |-> "absent", toks |-> <<>>]

(***************************************************************************)
(* TextBlock and Layout (dataclasses: no field is type-checked).           *)
(***************************************************************************)
TextBlock(text_template, position, font_size, anchor, fill, max_width, line_spacing, font_path) ==
    [text_template |-> text_template, position |-> position,
     font_size |-> font_size, anchor |-> anchor, fill |-> fill,
     max_width |-> max_width, line_spacing |-> line_spacing,
     font_path |-> font_path]

Layout(size, qr_box_size, qr_border, qr_position, qr_render_size, background, text_blocks) ==
    [size |-> size, qr_box_size |-> qr_box_size, qr_border |-> qr_border,
     qr_position |-> qr_position, qr_render_size |-> qr_render_size,
     background |-> background, text_blocks |-> text_blocks]

\* the value of layout before load_template has returned, and after it raised
NoLayout == Layout(<<0, 0>>, 0, 0, <<>>, 0, 0, <<>>)

(***************************************************************************)
(* default_layout(dpi)                                                     *)
(***************************************************************************)
\* qr_render_size = int(round(2.4 * dpi))
DefaultQrRenderSize(k) == PyRound(24 * k, 10)

\* margin = int(round(0.3 * dpi))
DefaultMargin(k) == PyRound(3 * k, 10)

default_layout(k) ==
    LET width_px == PyRound(DEFAULT_LABEL_WIDTH_IN.n * k, DEFAULT_LABEL_WIDTH_IN.d)
        height_px == PyRound(DEFAULT_LABEL_HEIGHT_IN.n * k, DEFAULT_LABEL_HEIGHT_IN.d)
        margin == DefaultMargin(k)
        qr_render_size == DefaultQrRenderSize(k)
        qr_position == <<width_px - qr_render_size - margin,
                         height_px - qr_render_size - margin>>
        text_blocks == <<
            TextBlock(TStr(Lits(<<"P", "a", "l", "l", "e", "t", ":", " ">>)
                           \o <<FieldTok("pallet_id")>>),
                      <<margin, margin>>,
                      Max(PyRound(45 * k, 100), 24),
                      JStr("la"), 0, None, None, ""),
            TextBlock(TStr(Lits(<<"D", "e", "s", "t", "i", "n", "a", "t", "i",
                                  "o", "n", ":", " ">>)
                           \o <<FieldTok("destination")>>),
                      <<margin, margin + PyRound(7 * k, 10)>>,
                      Max(PyRound(28 * k, 100), 18),
                      JStr("la"), 0,
                      Some(width_px - (2 * margin + qr_render_size + margin)),
                      None, ""),
            TextBlock(TStr(Lits(<<"C", "o", "n", "t", "e", "n", "t", "s", ":", " ">>)
                           \o <<FieldTok("contents")>>),
                      <<margin, margin + PyRound(12 * k, 10)>>,
                      Max(PyRound(26 * k, 100), 16),
                      JStr("la"), 0,
                      Some(width_px - 2 * margin),
                      Some(PyRound(k, 10)), "") >>
    IN  Layout(<<width_px, height_px>>, DEFAULT_QR_BOX_SIZE, DEFAULT_QR_BORDER,
               qr_position, qr_render_size, DEFAULT_BACKGROUND, text_blocks)

(***************************************************************************)
(* load_template(path, dpi).  tpl.given says whether --template was given; *)
(* tpl.parses whether json.loads accepts the file.  Returns [err, layout]: *)
(* err names the exception load_template raised, "" when it returned.      *)
(***************************************************************************)
\* the block of the template, resolved: [err, block]
ResolveBlock(b, k) ==
    LET position == IntTuple(Get(b.position,
                                 JList(<<JInt(PyTrunc(k, 4)), JInt(PyTrunc(k, 4))>>)))
        font_size == PyInt(Get(b.font_size, JInt(PyTrunc(3 * k, 10))))
        fill == PyInt(Get(b.fill, JInt(0)))
        max_width == IF b.max_width.t = "absent" THEN Ok(0, 1) ELSE PyInt(b.max_width)
        line_spacing == IF b.line_spacing.t = "absent" THEN Ok(0, 1)
                        ELSE PyInt(b.line_spacing)
        err == FirstErr(<<position, font_size, fill, max_width, line_spacing>>)
    IN  [err |-> err,
         block |-> TextBlock(
             IF b.text.t = "absent" THEN TStr(<<>>) ELSE b.text,
             position.xs,
             font_size.n,
             Get(b.anchor, JStr("la")),
             fill.n,
             IF b.max_width.t = "absent" THEN None ELSE Some(max_width.n),
             IF b.line_spacing.t = "absent" THEN None ELSE Some(line_spacing.n),
             b.font_path)]

\* the default of qr_config.get("position", ...)
TemplateQrPosition(width_px, height_px, qr_render_size, k) ==
    JList(<<JInt(width_px - qr_render_size - PyTrunc(k, 4)), JInt(PyTrunc(k, 4))>>)

load_template(tpl, k) ==
    IF ~tpl.given THEN [err |-> "", layout |-> default_layout(k)]
    ELSE IF ~tpl.parses THEN [err |-> "JSONDecodeError", layout |-> NoLayout]
    ELSE
    LET width_in == PyFloat(Get(tpl.width_in, JNum(DEFAULT_LABEL_WIDTH_IN.n,
                                                   DEFAULT_LABEL_WIDTH_IN.d)))
        height_in == PyFloat(Get(tpl.height_in, JNum(DEFAULT_LABEL_HEIGHT_IN.n,
                                                     DEFAULT_LABEL_HEIGHT_IN.d)))
        background == PyInt(Get(tpl.background, JInt(DEFAULT_BACKGROUND)))
        width_px == PyRound(width_in.n * k, width_in.d)
        height_px == PyRound(height_in.n * k, height_in.d)
        qr_box_size == PyInt(Get(tpl.box_size, JInt(DEFAULT_QR_BOX_SIZE)))
        qr_border == PyInt(Get(tpl.border, JInt(DEFAULT_QR_BORDER)))
        qr_render_size ==
            IF tpl.size_in.t # "absent" THEN PyRoundTimes(tpl.size_in, k)
            ELSE PyInt(Get(tpl.size_px, JInt(PyRound(25 * k, 10))))
        qr_position ==
            IntTuple(Get(tpl.position,
                         TemplateQrPosition(width_px, height_px, qr_render_size.n, k)))
        blocks == [i \in 1..Len(tpl.text_blocks) |-> ResolveBlock(tpl.text_blocks[i], k)]
        err == FirstErr(<<width_in, height_in, background, qr_box_size, qr_border,
                          qr_render_size, qr_position>> \o blocks)
    IN  IF err # "" THEN [err |-> err, layout |-> NoLayout]
        ELSE [err |-> "",
              layout |-> Layout(<<width_px, height_px>>, qr_box_size.n, qr_border.n,
                                qr_position.xs, qr_render_size.n, background.n,
                                [i \in 1..Len(blocks) |-> blocks[i].block])]

(***************************************************************************)
(* Strings and rows.  A row is a dict, kept in insertion order: a sequence  *)
(* of items [k, v] whose keys differ.  A value is a str or None.           *)
(***************************************************************************)
Item(k, v) == [k |-> k, v |-> v]

Keys(r) == {r[i].k : i \in 1..Len(r)}

\* r[key], for a key of r
Lookup(r, key) == r[CHOOSE i \in 1..Len(r) : r[i].k = key].v

\* r[key] = v: the item is replaced where it is, or added at the end
Store(r, key, v) ==
    IF key \in Keys(r)
    THEN [i \in 1..Len(r) |-> IF r[i].k = key THEN Item(key, v) ELSE r[i]]
    ELSE Append(r, Item(key, v))

\* Python None as a row value: no str over the alphabet equals it
NoneV == <<"<None>">>

Whitespace == {" ", "\n", "\t"}

RECURSIVE LStrip(_)
LStrip(s) == IF s # <<>> /\ Head(s) \in Whitespace THEN LStrip(Tail(s)) ELSE s

RECURSIVE RStrip(_)
RStrip(s) ==
    IF s # <<>> /\ s[Len(s)] \in Whitespace THEN RStrip(SubSeq(s, 1, Len(s) - 1)) ELSE s

NoStrip(s) == s

\* str.strip()
Strip(s) == RStrip(LStrip(s))

RECURSIVE Concat(_)
Concat(ss) == IF ss = <<>> THEN <<>> ELSE Head(ss) \o Concat(Tail(ss))

(***************************************************************************)
(* TextBlock.build_text(row): [err, text]                                  *)
(***************************************************************************)
SafeDictMissingKeepsField(key) == <<"{", key, "}">>

\* SafeDict.__missing__(key)
SafeDictMissing(key) == <<>>

\* SafeDict({k: (v or "") for k, v in row.items()})[key]
SafeDictLookup(r, key) ==
    IF key \in Keys(r)
    THEN (IF Lookup(r, key) = NoneV THEN <<>> ELSE Lookup(r, key))
    ELSE SafeDictMissing(key)

\* str.format_map over the tokens of the format string
FormatMap(toks, r) ==
    Concat([i \in 1..Len(toks) |->
               IF toks[i].lit THEN <<toks[i].v>> ELSE SafeDictLookup(r, toks[i].v)])

build_text(block, r) ==
    IF block.text_template.t # "str"
    THEN [err |-> "AttributeError", text |-> <<>>]
    ELSE [err |-> "", text |-> Strip(FormatMap(block.text_template.toks, r))]

(***************************************************************************)
(* Fonts.  A font is [truetype, size, m]: m is the advance width of "M" in *)
(* units of 1/GlyphDen pixel, as font.getlength("M") measures it.          *)
(***************************************************************************)
GlyphDen == 2

Font(truetype, size, m) == [truetype |-> truetype, size |-> size, m |-> m]

(***************************************************************************)
(* textwrap.TextWrapper(width, break_long_words=True,                      *)
(* break_on_hyphens=False).fill(paragraph), on a paragraph without tabs.   *)
(***************************************************************************)
IsBlank(chunk) == \A i \in 1..Len(chunk) : chunk[i] \in Whitespace

\* _munge_whitespace: every whitespace character becomes a space
Munge(s) == [i \in 1..Len(s) |-> IF s[i] \in Whitespace THEN " " ELSE s[i]]

\* the length of the longest prefix of s whose characters are all blank (or all not)
RECURSIVE RunLen(_, _)
RunLen(s, blank) ==
    IF s = <<>> \/ ((Head(s) = " ") # blank) THEN 0 ELSE 1 + RunLen(Tail(s), blank)

\* _split with wordsep_simple_re: runs of whitespace and runs of anything else
RECURSIVE SplitChunks(_)
SplitChunks(s) ==
    IF s = <<>> THEN <<>>
    ELSE LET k == RunLen(s, Head(s) = " ")
         IN  <<SubSeq(s, 1, k)>> \o SplitChunks(SubSeq(s, k + 1, Len(s)))

\* the inner loop of _wrap_chunks: chunks are taken while they fit
RECURSIVE TakeChunks(_, _, _, _)
TakeChunks(chunks, cur, cur_len, width) ==
    IF chunks # <<>> /\ cur_len + Len(Head(chunks)) <= width
    THEN TakeChunks(Tail(chunks), Append(cur, Head(chunks)),
                    cur_len + Len(Head(chunks)), width)
    ELSE [cur |-> cur, len |-> cur_len, rest |-> chunks]

\* _wrap_chunks: the lines of the paragraph
RECURSIVE WrapChunks(_, _, _)
WrapChunks(chunks, lines, width) ==
    IF chunks = <<>> THEN lines
    ELSE
    LET c0 == IF IsBlank(Head(chunks)) /\ lines # <<>> THEN Tail(chunks) ELSE chunks
        t == TakeChunks(c0, <<>>, 0, width)
        long == t.rest # <<>> /\ Len(Head(t.rest)) > width
        space_left == IF width < 1 THEN 1 ELSE width - t.len
        word == Head(t.rest)
        cur == IF long THEN Append(t.cur, SubSeq(word, 1, space_left)) ELSE t.cur
        rest == IF long
                THEN <<SubSeq(word, space_left + 1, Len(word))>> \o Tail(t.rest)
                ELSE t.rest
        kept == IF cur # <<>> /\ IsBlank(cur[Len(cur)])
                THEN SubSeq(cur, 1, Len(cur) - 1) ELSE cur
    IN  WrapChunks(rest, IF kept # <<>> THEN Append(lines, Concat(kept)) ELSE lines,
                   width)

\* "\n".join(lines)
RECURSIVE JoinLines(_)
JoinLines(lines) ==
    IF lines = <<>> THEN <<>>
    ELSE IF Len(lines) = 1 THEN lines[1]
    ELSE lines[1] \o <<"\n">> \o JoinLines(Tail(lines))

\* fill at a width one character too wide
FillOneTooWide(paragraph, width) ==
    JoinLines(WrapChunks(SplitChunks(Munge(paragraph)), <<>>, width + 1))

\* TextWrapper.fill
Fill(paragraph, width) == JoinLines(WrapChunks(SplitChunks(Munge(paragraph)), <<>>, width))

\* the index of the first "\n" of s, 0 when it has none
RECURSIVE FirstNewline(_, _)
FirstNewline(s, i) ==
    IF i > Len(s) THEN 0 ELSE IF s[i] = "\n" THEN i ELSE FirstNewline(s, i + 1)

\* the text taken as one paragraph
NoSplitLines(s) == <<s>>

\* str.splitlines()
RECURSIVE SplitLines(_)
SplitLines(s) ==
    IF s = <<>> THEN <<>>
    ELSE LET k == FirstNewline(s, 1)
         IN  IF k = 0 THEN <<s>>
             ELSE <<SubSeq(s, 1, k - 1)>> \o SplitLines(SubSeq(s, k + 1, Len(s)))

(***************************************************************************)
(* wrap_text_to_width(text, font, max_width): [wrap_width, text].          *)
(* wrap_width is 0 when the function returns before computing it.          *)
(***************************************************************************)
WrapWidthNoClamp(font, max_width) == Max(PyTrunc(max_width * GlyphDen, font.m), 1)

\* ref_width = max(ref_width, 1); wrap_width = max(int(max_width / ref_width), 1)
WrapWidth(font, max_width) ==
    Max(PyTrunc(max_width * GlyphDen, Max(font.m, GlyphDen)), 1)

\* wrapping without the first return: an unset max_width wraps at one character
WrapAlways(text, font, max_width) ==
    LET wrap_width == WrapWidth(font, IF max_width.none THEN 0 ELSE max_width.v)
        paragraphs == SplitLines(text)
    IN  [wrap_width |-> wrap_width,
         text |-> JoinLines([i \in 1..Len(paragraphs) |-> Fill(paragraphs[i], wrap_width)])]

wrap_text_to_width(text, font, max_width) ==
    IF max_width.none \/ max_width.v = 0 \/ text = <<>>
    THEN [wrap_width |-> 0, text |-> text]
    ELSE LET wrap_width == WrapWidth(font, max_width.v)
             paragraphs == SplitLines(text)
             wrapped_lines == [i \in 1..Len(paragraphs) |->
                                  IF paragraphs[i] = <<>> THEN <<>>
                                  ELSE Fill(paragraphs[i], wrap_width)]
         IN  [wrap_width |-> wrap_width, text |-> JoinLines(wrapped_lines)]

(***************************************************************************)
(* load_rows(csv_path).  A raw row is what csv.DictReader yields: a dict   *)
(* from the header's column names to the cells.                            *)
(***************************************************************************)
\* k.strip().lower(), on the column names of the model
NormKey(k) ==
    CASE k = "Pallet_ID" -> "pallet_id"
      [] k = " Pallet " -> "pallet"
      [] k = "Destination" -> "destination"
      [] OTHER -> k

\* {k.strip().lower(): (v.strip() if isinstance(v, str) else v) for k, v in row.items()}
RECURSIVE Normalise(_, _)
Normalise(raw, acc) ==
    IF raw = <<>> THEN acc
    ELSE Normalise(Tail(raw),
                   Store(acc, NormKey(Head(raw).k),
                         IF Head(raw).v = NoneV THEN NoneV ELSE Strip(Head(raw).v)))

\* dict.get(key): None when the key is missing
DictGet(r, key) == IF key \in Keys(r) THEN Lookup(r, key) ELSE NoneV

\* bool(v) of a str or None
Truthy(v) == v # NoneV /\ v # <<>>

\* a or b
PyOr(a, b) == IF Truthy(a) THEN a ELSE b

\* pallet_id = normalised.get("pallet_id") or normalised.get("pallet")
RowPalletId(normalised) ==
    PyOr(DictGet(normalised, "pallet_id"), DictGet(normalised, "pallet"))

\* the key csv.DictReader files the cells under that have no column: None
RESTKEY == "<None>"

\* k.strip() raises AttributeError for the key None
KeysStrip(raw) == \A i \in 1..Len(raw) : raw[i].k # RESTKEY

\* the generator up to its next yield or its exception:
\* [err, found, row, rest, skipped]
RECURSIVE load_rows(_, _)
load_rows(rows, skipped) ==
    IF rows = <<>>
    THEN [err |-> "", found |-> FALSE, row |-> <<>>, rest |-> <<>>, skipped |-> skipped]
    ELSE IF ~KeysStrip(Head(rows))
    THEN [err |-> "AttributeError", found |-> FALSE, row |-> <<>>, rest |-> Tail(rows),
          skipped |-> skipped]
    ELSE LET normalised == Normalise(Head(rows), <<>>)
             pallet_id == RowPalletId(normalised)
         IN  IF ~Truthy(pallet_id) THEN load_rows(Tail(rows), skipped + 1)
             ELSE [err |-> "", found |-> TRUE, row |-> Store(normalised, "pallet_id", pallet_id),
                   rest |-> Tail(rows), skipped |-> skipped]

(***************************************************************************)
(* TextBlock.get_font().  e.fontfiles are the font sources truetype()      *)
(* loads; the default bitmap face has no size attribute.                   *)
(***************************************************************************)
DEFAULT_FONT_FALLBACK == "DejaVuSans.ttf"

\* get_font without the except clause: the requested face whatever the files
GetFontNoFallback(block, e) == Font(TRUE, block.font_size, e.m)

get_font(block, e) ==
    LET font_source == IF block.font_path = "" THEN DEFAULT_FONT_FALLBACK
                       ELSE block.font_path
    IN  IF font_source \in e.fontfiles THEN Font(TRUE, block.font_size, e.m)
        ELSE Font(FALSE, 0, e.m)

(***************************************************************************)
(* build_qr_image: qr.make(fit=True) raises when the payload exceeds what  *)
(* the largest symbol holds.  QrCapacity stands for that capacity.         *)
(***************************************************************************)
QrCapacity == 8

QrEncodes(data) == Len(data) <= QrCapacity

(***************************************************************************)
(* render_label(row, layout, dpi): [err, image].  The image is the list of *)
(* what was put on the canvas, in order: the QR code, then the texts.      *)
(***************************************************************************)
NoImage == [size |-> <<0, 0>>, background |-> 0, qr_data |-> <<>>, qr_position |-> <<>>, qr_size |-> 0, texts |-> <<>>, ops |-> <<>>]

\* one operation on the canvas; block is 0 for the two that draw no block
Op(kind, block) == [kind |-> kind, block |-> block]

\* the QR code pasted after the texts
DrawOrderQrLast(n) ==
    <<Op("background", 0)>> \o [i \in 1..n |-> Op("text", i)] \o <<Op("qr", 0)>>

\* the operations of render_label on the canvas, in the order of its
\* statements: Image.new, image.paste, then draw.multiline_text per block
DrawOrder(n) ==
    <<Op("background", 0), Op("qr", 0)>> \o [i \in 1..n |-> Op("text", i)]

\* qr_data = row.get("pallet_id") or next(iter(row.values()))
QrData(r) ==
    IF Truthy(DictGet(r, "pallet_id")) THEN [err |-> "", data |-> Lookup(r, "pallet_id")]
    ELSE IF r = <<>> THEN [err |-> "StopIteration", data |-> <<>>]
    ELSE [err |-> "", data |-> r[1].v]

\* spacing=block.line_spacing or max(int(font.size * 0.2) if hasattr(font, "size") else 4, 4)
Spacing(block, font) ==
    IF ~block.line_spacing.none /\ block.line_spacing.v # 0 THEN block.line_spacing.v
    ELSE Max(IF font.truetype THEN PyTrunc(font.size, 5) ELSE 4, 4)

\* anchor=block.anchor or None: a falsy anchor becomes None, and the drawing
\* call takes None or a str
AnchorDraws(anchor) ==
    \/ anchor.t \in {"str", "null"}
    \/ anchor.t = "num" /\ anchor.n = 0

\* one pass of the loop over layout.text_blocks: [err, drawn]
DrawBlock(block, r, e) ==
    LET font == get_font(block, e)
        built == build_text(block, r)
        wrapped == wrap_text_to_width(built.text, font, block.max_width)
        err == IF built.err # "" THEN built.err
               ELSE IF Len(block.position) # 2 THEN "ValueError"
               ELSE IF ~AnchorDraws(block.anchor) THEN "TypeError"
               ELSE ""
    IN  [err |-> err,
         drawn |-> [position |-> block.position, text |-> wrapped.text,
                    fill |-> block.fill, spacing |-> Spacing(block, font),
                    anchor |-> block.anchor, font |-> font]]

render_label(r, lay, k, e) ==
    LET qr == QrData(r)
        blocks == [i \in 1..Len(lay.text_blocks) |-> DrawBlock(lay.text_blocks[i], r, e)]
        err == IF qr.err # "" THEN qr.err
               ELSE IF qr.data = NoneV THEN "TypeError"
               ELSE IF ~QrEncodes(qr.data) THEN "DataOverflowError"
               ELSE IF Len(lay.qr_position) # 2 THEN "ValueError"
               ELSE FirstErr(blocks)
    IN  IF err # "" THEN [err |-> err, image |-> NoImage]
        ELSE [err |-> "",
              image |-> [size |-> lay.size, background |-> lay.background,
                         qr_data |-> qr.data, qr_position |-> lay.qr_position,
                         qr_size |-> lay.qr_render_size,
                         texts |-> [i \in 1..Len(blocks) |-> blocks[i].drawn],
                         ops |-> DrawOrder(Len(blocks))]]

(***************************************************************************)
(* sanitise_filename, Path.with_suffix, export_label                       *)
(***************************************************************************)
Letters == {"a", "b", "c", "d", "e", "f", "g", "h", "i", "j", "k", "l", "m", "n", "o", "p", "q", "r", "s", "t", "u", "v", "w", "x", "y", "z", "A", "B", "C", "D", "E", "F", "G", "H", "I", "J", "K", "L", "M", "N", "O", "P", "Q", "R", "S", "T", "U", "V", "W", "X", "Y", "Z"}

DigitChars == {"0", "1", "2", "3", "4", "5", "6", "7", "8", "9"}

FilenameCharsNoHyphen == Letters \cup DigitChars \cup {".", "_"}

\* the characters the pattern [^A-Za-z0-9._-] does not match
FilenameChars == Letters \cup DigitChars \cup {".", "_", "-"}

\* re.sub(r"[^A-Za-z0-9._-]+", "_", value): each run of other characters becomes one "_"
RECURSIVE SubUnsafe(_, _)
SubUnsafe(value, inrun) ==
    IF value = <<>> THEN <<>>
    ELSE IF Head(value) \in FilenameChars THEN <<Head(value)>> \o SubUnsafe(Tail(value), FALSE)
    ELSE IF inrun THEN SubUnsafe(Tail(value), TRUE)
    ELSE <<"_">> \o SubUnsafe(Tail(value), TRUE)

\* str.strip("_")
RECURSIVE StripUnderscores(_)
StripUnderscores(v) ==
    IF v # <<>> /\ Head(v) = "_" THEN StripUnderscores(Tail(v))
    ELSE IF v # <<>> /\ v[Len(v)] = "_" THEN StripUnderscores(SubSeq(v, 1, Len(v) - 1))
    ELSE v

sanitise_filename(value) ==
    LET cleaned == StripUnderscores(SubUnsafe(value, FALSE))
    IN  IF cleaned = <<>> THEN <<"l", "a", "b", "e", "l">> ELSE cleaned

\* the index of the last "." of name, 0 when it has none
RECURSIVE LastDot(_, _)
LastDot(name, i) == IF i = 0 THEN 0 ELSE IF name[i] = "." THEN i ELSE LastDot(name, i - 1)

\* Path.with_suffix: the suffix of the name (from its last dot, when that is
\* neither its first nor its last character) is replaced
WithSuffix(name, suffix) ==
    LET i == LastDot(name, Len(name))
    IN  IF 1 < i /\ i < Len(name) THEN SubSeq(name, 1, i - 1) \o suffix
        ELSE name \o suffix

PngName(base) == WithSuffix(base, <<".", "p", "n", "g">>)
PdfName(base) == WithSuffix(base, <<".", "p", "d", "f">>)

\* a file of the output directory
File(name, format, img, k) == [name |-> name, format |-> format, image |-> img, dpi |-> k]

\* image.save(path, ...): the file is created, or replaces the one of that name
Save(fs, f) == {g \in fs : g.name # f.name} \cup {f}

\* export_label(image, base_path, dpi), when both saves succeed: the files of
\* the output directory afterwards
export_label(fs, img, base, k) ==
    Save(Save(fs, File(PngName(base), "PNG", img, k)), File(PdfName(base), "PDF", img, k))

\* pallet_id = (row.get("pallet_id") or "label").strip() or "label"
ProcessPalletId(r) ==
    PyOr(Strip(PyOr(DictGet(r, "pallet_id"), <<"l", "a", "b", "e", "l">>)), <<"l", "a", "b", "e", "l">>)

(***************************************************************************)
(* Inputs of the model.                                                    *)
(***************************************************************************)
MaxRows == 2
MaxGlyph == 6
MaxWidth == 12
MaxTextLen == 4
MaxTplLen == 3

Str_PAL001 == <<"P", "A", "L", "-", "0", "0", "1">>
Str_Dock7 == <<"D", "o", "c", "k", " ", "7">>
Str_Widget == <<"2", "0", "x", " ", "W", "i", "d", "g", "e", "t", " ", "A">>
Str_TooLong == <<"P", "A", "L", "-", "0", "0", "0", "0", "0", "0", "0", "0", "0", "2">>

\* the rows of the CSV files of the model, as csv.DictReader yields them
RowPal001 == <<Item("pallet_id", Str_PAL001), Item("destination", Str_Dock7), Item("contents", Str_Widget)>>
RowNoDestination == <<Item("Pallet_ID", <<" ", "A", "7">>), Item("contents", <<"a", " ", "b">>)>>
RowAlias == <<Item("Destination", <<"D">>), Item(" Pallet ", <<"B", "2">>), Item("pallet_id", <<>>)>>
RowNoId == <<Item("destination", <<"D">>), Item("pallet_id", NoneV)>>
RowTooLong == <<Item("pallet_id", Str_TooLong), Item("destination", <<"D">>)>>

RowSlash == <<Item("pallet_id", <<"A", "/", "1">>)>>
RowUnderscore == <<Item("pallet_id", <<"A", "_", "1">>)>>

RawRows == {RowPal001, RowNoDestination, RowAlias, RowNoId, RowTooLong, RowSlash, RowUnderscore}

RECURSIVE SeqsUpTo(_, _)
SeqsUpTo(S, n) ==
    IF n = 0 THEN {<<>>}
    ELSE LET shorter == SeqsUpTo(S, n - 1)
         IN  shorter \cup {Append(q, x) : q \in {t \in shorter : Len(t) = n - 1}, x \in S}

Csvs == SeqsUpTo(RawRows, MaxRows)

\* resolutions: the small ones, and the default
Dpis == (1..MaxDpi) \cup {DEFAULT_DPI}

\* a block of a template's "text_blocks"
JBlock(text, position, font_size, anchor, fill, max_width, line_spacing, font_path) ==
    [text |-> text, position |-> position, font_size |-> font_size, anchor |-> anchor,
     fill |-> fill, max_width |-> max_width, line_spacing |-> line_spacing,
     font_path |-> font_path]

\* no --template argument
NoTemplate ==
    [given |-> FALSE, parses |-> TRUE, width_in |-> JAbsent, height_in |-> JAbsent,
     background |-> JAbsent, box_size |-> JAbsent, border |-> JAbsent,
     size_in |-> JAbsent, size_px |-> JAbsent, position |-> JAbsent, text_blocks |-> <<>>]

\* the template {}
EmptyTemplate == [NoTemplate EXCEPT !.given = TRUE]

\* "ID: {pallet_id}" at (10, 20), wrapped at 40 pixels
IdBlock ==
    JBlock(TStr(Lits(<<"I", "D", ":", " ">>) \o <<FieldTok("pallet_id")>>),
           JList(<<JInt(10), JInt(20)>>), JInt(12), JAbsent, JAbsent, JInt(40), JAbsent, "")

\* a well-formed template: a 2 x 1 inch label with one block
SmallTemplate ==
    [EmptyTemplate EXCEPT !.width_in = JInt(2), !.height_in = JNum(1, 1),
                          !.size_in = JNum(3, 4), !.text_blocks = <<IdBlock>>]

\* SmallTemplate with one defect each
DefectiveTemplates ==
    { [SmallTemplate EXCEPT !.parses = FALSE],
      [SmallTemplate EXCEPT !.width_in = JStr("wide")],
      [SmallTemplate EXCEPT !.height_in = JNull],
      [SmallTemplate EXCEPT !.size_in = JStr("big")],
      [SmallTemplate EXCEPT !.position = JInt(7)],
      [SmallTemplate EXCEPT !.position = JList(<<JStr("left"), JInt(2)>>)],
      [SmallTemplate EXCEPT !.position = JList(<<JInt(1), JInt(2), JInt(3)>>)],
      [SmallTemplate EXCEPT !.text_blocks = <<[IdBlock EXCEPT !.font_size = JStr("big")]>>],
      [SmallTemplate EXCEPT !.text_blocks = <<[IdBlock EXCEPT !.position = JList(<<JInt(1)>>)]>>],
      [SmallTemplate EXCEPT !.text_blocks = <<[IdBlock EXCEPT !.text = TNum]>>],
      [SmallTemplate EXCEPT !.text_blocks = <<[IdBlock EXCEPT !.anchor = JInt(5)]>>] }

MainTemplates == {NoTemplate, EmptyTemplate, SmallTemplate} \cup DefectiveTemplates

MainDpis == {DEFAULT_DPI, 300}

\* the fonts load or do not, and "M" measures 1/GlyphDen pixel or MaxGlyph pixels
MainEnvs == [fontfiles : {{}, {DEFAULT_FONT_FALLBACK}}, m : {1, MaxGlyph * GlyphDen}]

NoEnv == [fontfiles |-> {}, m |-> GlyphDen]

(***************************************************************************)
(* main() and process(): one action per step of the batch.                 *)
(***************************************************************************)
\* an uncaught exception: its class, and the call of main or process it came out of
Raised(exc, at) == [exc |-> exc, at |-> at]

NoError == Raised("", "")

Init ==
    /\ pc = "main"
    /\ template \in MainTemplates
    /\ dpi \in MainDpis
    /\ env \in MainEnvs
    /\ csv \in Csvs
    /\ layout = NoLayout
    /\ row = <<>>
    /\ image = NoImage
    /\ files = {}
    /\ log = <<>>
    /\ error = NoError
    /\ args = <<>>
    /\ result = <<>>

\* main: layout = load_template(args.template, args.dpi)
Main ==
    /\ pc = "main"
    /\ LET r == load_template(template, dpi)
       IN  IF r.err # ""
           THEN /\ pc' = "raised"
                /\ error' = Raised(r.err, "load_template")
                /\ UNCHANGED layout
           ELSE /\ pc' = "process"
                /\ layout' = r.layout
                /\ UNCHANGED error
    /\ UNCHANGED <<template, dpi, env, csv, row, image, files, log, args, result>>

SkipMessages(n) == [i \in 1..n |-> [kind |-> "skipped", name |-> <<>>]]

\* process: the loop asks load_rows for its next row
NextRow ==
    /\ pc = "process"
    /\ LET nxt == load_rows(csv, 0)
       IN  /\ csv' = nxt.rest
           /\ log' = log \o SkipMessages(nxt.skipped)
           /\ IF nxt.err # ""
              THEN /\ error' = Raised(nxt.err, "load_rows")
                   /\ pc' = "raised"
                   /\ UNCHANGED row
              ELSE /\ UNCHANGED error
                   /\ IF nxt.found
                      THEN row' = nxt.row /\ pc' = "render"
                      ELSE UNCHANGED row /\ pc' = "done"
    /\ UNCHANGED <<template, dpi, env, layout, image, files, args, result>>

\* a render that uses up the blocks of the shared layout
RenderConsumesBlocks ==
    /\ pc = "render"
    /\ LET r == render_label(row, layout, dpi, env)
       IN  IF r.err # ""
           THEN /\ pc' = "raised"
                /\ error' = Raised(r.err, "render_label")
                /\ UNCHANGED <<image, layout>>
           ELSE /\ pc' = "export"
                /\ image' = r.image
                /\ layout' = [layout EXCEPT !.text_blocks = <<>>]
                /\ UNCHANGED error
    /\ UNCHANGED <<template, dpi, env, csv, row, files, log, args, result>>

\* process: label_image = render_label(row, layout, dpi)
Render ==
    /\ pc = "render"
    /\ LET r == render_label(row, layout, dpi, env)
       IN  IF r.err # ""
           THEN /\ pc' = "raised"
                /\ error' = Raised(r.err, "render_label")
                /\ UNCHANGED image
           ELSE /\ pc' = "export"
                /\ image' = r.image
                /\ UNCHANGED error
    /\ UNCHANGED <<template, dpi, env, csv, layout, row, files, log, args, result>>

\* filename = sanitise_filename(pallet_id)
BasePath(r) == sanitise_filename(ProcessPalletId(r))

\* process: export_label writes both files, and the row is reported
ExportOk ==
    /\ pc = "export"
    /\ files' = export_label(files, image, BasePath(row), dpi)
    /\ log' = Append(log, [kind |-> "generated", name |-> BasePath(row)])
    /\ pc' = "process"
    /\ UNCHANGED <<template, dpi, env, csv, layout, row, image, error, args, result>>

\* process: the first image.save of export_label raises OSError
ExportPngFails ==
    /\ pc = "export"
    /\ error' = Raised("OSError", "export_label")
    /\ pc' = "raised"
    /\ UNCHANGED <<template, dpi, env, csv, layout, row, image, files, log, args, result>>

\* process: the second image.save of export_label raises OSError
ExportPdfFails ==
    /\ pc = "export"
    /\ files' = Save(files, File(PngName(BasePath(row)), "PNG", image, dpi))
    /\ error' = Raised("OSError", "export_label")
    /\ pc' = "raised"
    /\ UNCHANGED <<template, dpi, env, csv, layout, row, image, log, args, result>>

Next == Main \/ NextRow \/ Render \/ ExportOk \/ ExportPngFails \/ ExportPdfFails

Spec == Init /\ [][Next]_vars

(***************************************************************************)
(* The geometry resolver on its own: load_template over a range of label   *)
(* sizes, QR options and resolutions.                                      *)
(***************************************************************************)
\* label sizes: not given, or a number of quarter inches
InchChoices == {JAbsent} \cup {JNum(q, 4) : q \in 1..MaxQuarterIn}

GeometryTemplates ==
    {NoTemplate} \cup
    { [EmptyTemplate EXCEPT !.width_in = w, !.height_in = h, !.size_in = si,
                            !.size_px = sp, !.position = p, !.box_size = o[1],
                            !.border = o[2], !.background = o[3]] :
        w \in InchChoices, h \in InchChoices,
        si \in {JAbsent, JNum(3, 4)}, sp \in {JAbsent, JInt(3)},
        p \in {JAbsent, JList(<<JInt(1), JInt(2)>>)},
        o \in {<<JAbsent, JAbsent, JAbsent>>, <<JInt(5), JInt(2), JInt(0)>>} }

InitGeometry ==
    /\ pc = "main"
    /\ template \in GeometryTemplates
    /\ dpi \in Dpis
    /\ env = NoEnv
    /\ csv = <<>>
    /\ layout = NoLayout
    /\ row = <<>>
    /\ image = NoImage
    /\ files = {}
    /\ log = <<>>
    /\ error = NoError
    /\ args = <<>>
    /\ result = <<>>

SpecGeometry == InitGeometry /\ [][Main]_vars

\* the label width and height in inches that the template asks for (n/d)
WidthIn == IF template.given /\ template.width_in.t # "absent" THEN template.width_in ELSE JNum(4, 1)
HeightIn == IF template.given /\ template.height_in.t # "absent" THEN template.height_in ELSE JNum(6, 1)

\* load_template has returned a Layout
Resolved == pc = "process"

\* w is n/d rounded: the nearest integer, and the even one of the two when
\* n/d lies half-way between them
IsRounded(w, n, d) ==
    LET diff == IF w * d >= n THEN w * d - n ELSE n - w * d
    IN  /\ 2 * diff <= d
        /\ 2 * diff = d => w % 2 = 0

\* C5: for every DPI D > 0 and label width W > 0 and height H > 0 in inches,
\* the resolved Layout has size = (round(W * D), round(H * D))
C5_SizeIsRoundedInchesTimesDpi ==
    (Resolved /\ dpi > 0 /\ WidthIn.n > 0 /\ HeightIn.n > 0)
        => /\ IsRounded(layout.size[1], WidthIn.n * dpi, WidthIn.d)
           /\ IsRounded(layout.size[2], HeightIn.n * dpi, HeightIn.d)

\* C5 witness: a label of 1.5 x 0.75 in was resolved at DPI 3: the width 4.5
\* is a tie and rounds to 4, the height 2.25 rounds to 2
C5_Witness ==
    /\ Resolved
    /\ template.given
    /\ template.width_in = JNum(6, 4)
    /\ template.height_in = JNum(3, 4)
    /\ dpi = 3
    /\ layout.size = <<4, 2>>

\* C6: every resolved Layout, for DPI > 0 and width and height > 0 inches,
\* has a canvas width and height that are positive integers
C6_CanvasIsPositive ==
    (Resolved /\ dpi > 0 /\ WidthIn.n > 0 /\ HeightIn.n > 0)
        => layout.size[1] > 0 /\ layout.size[2] > 0

\* the QR position is not given: no template, or a template without qr.position
QrPositionDefaulted == ~template.given \/ template.position.t = "absent"

\* the inch margins the program uses, in pixels: round(0.3 * dpi) and int(0.25 * dpi)
FixedMargins == {PyRound(3 * dpi, 10), PyTrunc(dpi, 4)}

\* C7: whenever the QR position is not given, qr_position is the bottom-right
\* corner minus a fixed inch margin on both axes
C7_DefaultQrPositionIsBottomRight ==
    (Resolved /\ QrPositionDefaulted)
        => \E margin \in FixedMargins :
              layout.qr_position =
                  <<layout.size[1] - layout.qr_render_size - margin,
                    layout.size[2] - layout.qr_render_size - margin>>

\* the option is not supplied
NotSupplied(v) == ~template.given \/ v.t = "absent"

\* C8: whenever an option is not supplied the Layout uses the documented
\* default for it, on both paths: label 4 x 6 in, QR box size 10, QR border 4,
\* QR render size round(2.5 * DPI), background 255
C8_DocumentedDefaults ==
    Resolved =>
        /\ NotSupplied(template.width_in) => layout.size[1] = PyRound(4 * dpi, 1)
        /\ NotSupplied(template.height_in) => layout.size[2] = PyRound(6 * dpi, 1)
        /\ NotSupplied(template.box_size) => layout.qr_box_size = 10
        /\ NotSupplied(template.border) => layout.qr_border = 4
        /\ NotSupplied(template.background) => layout.background = 255
        /\ (NotSupplied(template.size_in) /\ NotSupplied(template.size_px))
              => layout.qr_render_size = PyRound(25 * dpi, 10)

(***************************************************************************)
(* Claims about the batch: main() and process().                           *)
(***************************************************************************)
\* C1: when rendering or exporting one row fails, the failure is not raised
\* out of process(): the row is skipped and reported and the later rows are
\* still rendered and exported
C1_RowFailureDoesNotAbortBatch ==
    /\ ~(pc = "raised" /\ error.at \in {"render_label", "export_label"})
    /\ (pc = "done" \/ pc = "raised") /\ error.at # "load_template" => csv = <<>>

\* the value is a JSON number (or a numeric string, which float() and int() take)
Numeric(v) == v.t \in {"num", "strnum"}

\* the position is a list of two numbers
PairOfNumbers(v) == v.t = "list" /\ Len(v.xs) = 2 /\ \A i \in 1..2 : Numeric(v.xs[i])

\* a block that is malformed or type-invalid
MalformedBlock(b) ==
    \/ \E v \in {b.font_size, b.fill, b.max_width, b.line_spacing} :
          v.t # "absent" /\ ~Numeric(v)
    \/ b.position.t # "absent" /\ ~PairOfNumbers(b.position)
    \/ b.text.t \notin {"absent", "str"}
    \/ b.anchor.t \notin {"absent", "str"}

\* a template that is malformed or type-invalid: unparsable JSON, a
\* non-numeric geometry field, a position that is not a pair of numbers, a
\* non-string text or anchor
Malformed(tpl) ==
    /\ tpl.given
    /\ \/ ~tpl.parses
       \/ \E v \in {tpl.width_in, tpl.height_in, tpl.background, tpl.box_size,
                    tpl.border, tpl.size_in, tpl.size_px} :
             v.t # "absent" /\ ~Numeric(v)
       \/ tpl.position.t # "absent" /\ ~PairOfNumbers(tpl.position)
       \/ \E i \in 1..Len(tpl.text_blocks) : MalformedBlock(tpl.text_blocks[i])

\* C2: every malformed or type-invalid template makes load_template fail
\* before any row is rendered or exported; none is resolved into a Layout
\* whose defect first shows up while rendering a row
C2_MalformedTemplateFailsInLoadTemplate ==
    Malformed(template)
        => \/ pc = "main"
           \/ pc = "raised" /\ error.at = "load_template" /\ layout = NoLayout

\* the record of the scenario, as load_rows hands it to process()
RecordPal001 == <<Item("pallet_id", Str_PAL001), Item("destination", Str_Dock7), Item("contents", Str_Widget)>>

\* the files written from a label whose QR payload is data
FilesOf(data) == {f \in files : f.image.qr_data = data}

\* C9: the record {pallet_id: "PAL-001", destination: "Dock 7", contents:
\* "20x Widget A"} with the default layout at DPI 203 gives a canvas of
\* 812 x 1218, the first block's text "Pallet: PAL-001", the QR payload
\* "PAL-001" and exactly the two files PAL-001.png and PAL-001.pdf
C9_ScenarioPal001 ==
    (~template.given /\ dpi = 203 /\ row = RecordPal001)
        => /\ pc = "raised" => error.at = "export_label"
           /\ pc \in {"export", "process", "done"} =>
                 /\ image.size = <<812, 1218>>
                 /\ image.texts[1].text =
                        <<"P", "a", "l", "l", "e", "t", ":", " ">> \o Str_PAL001
                 /\ image.qr_data = Str_PAL001
           /\ pc \in {"process", "done"} =>
                 /\ {f.name : f \in FilesOf(Str_PAL001)} =
                        {Str_PAL001 \o <<".", "p", "n", "g">>,
                         Str_PAL001 \o <<".", "p", "d", "f">>}
                 /\ Cardinality(FilesOf(Str_PAL001)) = 2
                 /\ \A f \in FilesOf(Str_PAL001) : f.image = image /\ f.dpi = 203

\* C9 witness: the scenario's record was rendered and exported
C9_Witness ==
    /\ ~template.given /\ dpi = 203 /\ row = RecordPal001
    /\ pc = "process"
    /\ log # <<>> /\ log[Len(log)] = [kind |-> "generated", name |-> Str_PAL001]
    /\ Cardinality(files) = 2

(***************************************************************************)
(* The substitution engine on its own: build_text over a range of          *)
(* templates and records.  A literal brace token is a brace the template   *)
(* escapes ("{{", "}}").                                                   *)
(***************************************************************************)
SubstTokens == {LitTok("a"), LitTok(" "), LitTok("{"), LitTok("}"), FieldTok("x"), FieldTok("y")}

SubstValues == {<<>>, <<" ", "b">>, <<"{", "x", "}">>, NoneV}

\* records over the fields x and y, each present or not
SubstRows ==
    {<<>>} \cup {<<Item("x", v)>> : v \in SubstValues}
           \cup {<<Item("y", v)>> : v \in SubstValues}
           \cup {<<Item("x", v), Item("y", w)>> : v \in SubstValues, w \in SubstValues}

PlainBlock(toks) == TextBlock(TStr(toks), <<0, 0>>, 12, JStr("la"), 0, None, None, "")

SubstBlocks == {PlainBlock(toks) : toks \in SeqsUpTo(SubstTokens, MaxTplLen)}

\* the destination block of the default layout
DestinationBlock == default_layout(DEFAULT_DPI).text_blocks[2]

DefaultBlocks == {default_layout(DEFAULT_DPI).text_blocks[i] : i \in 1..3}

\* the scenario's record: whole, without destination, with an empty one, with None
ScenarioRows ==
    { RecordPal001,
      <<Item("pallet_id", Str_PAL001), Item("contents", Str_Widget)>>,
      <<Item("pallet_id", Str_PAL001), Item("destination", <<>>)>>,
      <<Item("pallet_id", Str_PAL001), Item("destination", NoneV)>> }

BuildTextArgs ==
    [block : SubstBlocks, row : SubstRows] \cup [block : DefaultBlocks, row : ScenarioRows]

InitBuildText ==
    /\ pc = "call"
    /\ args \in BuildTextArgs
    /\ result = <<>>
    /\ template = NoTemplate
    /\ dpi = DEFAULT_DPI
    /\ env = NoEnv
    /\ csv = <<>>
    /\ layout = NoLayout
    /\ row = <<>>
    /\ image = NoImage
    /\ files = {}
    /\ log = <<>>
    /\ error = NoError

\* text = block.build_text(row)
CallBuildText ==
    /\ pc = "call"
    /\ result' = build_text(args.block, args.row)
    /\ pc' = "returned"
    /\ UNCHANGED <<template, dpi, env, csv, layout, row, image, files, log, error, args>>

SpecBuildText == InitBuildText /\ [][CallBuildText]_vars

\* the characters of a field name
NameChars == Letters \cup DigitChars \cup {"_"}

\* the text holds literal placeholder syntax: "{", a name, "}"
HasPlaceholder(text) ==
    \E i \in 1..Len(text), j \in 1..Len(text) :
        /\ i + 1 < j
        /\ text[i] = "{"
        /\ text[j] = "}"
        /\ \A n \in (i + 1)..(j - 1) : text[n] \in NameChars

\* the field is absent from the record, or None in it
Absent(r, key) == key \notin Keys(r) \/ Lookup(r, key) = NoneV

\* the tokens of the template without the fields that are absent from the record
RECURSIVE WithoutAbsent(_, _)
WithoutAbsent(toks, r) ==
    IF toks = <<>> THEN <<>>
    ELSE IF ~Head(toks).lit /\ Absent(r, Head(toks).v) THEN WithoutAbsent(Tail(toks), r)
    ELSE <<Head(toks)>> \o WithoutAbsent(Tail(toks), r)

\* the number of braces of a str
RECURSIVE Braces(_)
Braces(text) ==
    IF text = <<>> THEN 0
    ELSE (IF Head(text) \in {"{", "}"} THEN 1 ELSE 0) + Braces(Tail(text))

\* the braces of the template's escaped braces and of the values its fields name
RECURSIVE SourceBraces(_, _)
SourceBraces(toks, r) ==
    IF toks = <<>> THEN 0
    ELSE (IF Head(toks).lit THEN Braces(<<Head(toks).v>>)
          ELSE IF Absent(r, Head(toks).v) THEN 0
          ELSE Braces(Lookup(r, Head(toks).v)))
         + SourceBraces(Tail(toks), r)

\* build_text has returned from a call on a block whose template is a str
BuildTextReturned == pc = "returned" /\ args.block.text_template.t = "str"

\* an absent field contributes the empty string: the text is what the
\* template without that field gives
AbsentContributesEmpty ==
    result.text = build_text(PlainBlock(WithoutAbsent(args.block.text_template.toks, args.row)), args.row).text

\* the template has named placeholders and escapes no brace
NamedPlaceholdersOnly(toks) ==
    /\ \E i \in 1..Len(toks) : ~toks[i].lit
    /\ \A i \in 1..Len(toks) : toks[i].lit => toks[i].v \notin {"{", "}"}

\* C3 as stated: for every template with named placeholders and every record
\* build_text returns a string without raising, an absent field contributes
\* the empty string, and the returned string contains no literal placeholder
\* syntax
C3_Original ==
    (BuildTextReturned /\ NamedPlaceholdersOnly(args.block.text_template.toks))
        => /\ result.err = ""
           /\ AbsentContributesEmpty
           /\ ~HasPlaceholder(result.text)

\* C3 as amended: build_text returns a string without raising, an absent or
\* None field contributes the empty string, and no replacement field is left
\* in the returned string: its only braces are those of the record's values
\* and of the template's escaped braces
C3_BuildTextIsTotal ==
    BuildTextReturned
        => /\ result.err = ""
           /\ AbsentContributesEmpty
           /\ Braces(result.text) = SourceBraces(args.block.text_template.toks, args.row)

\* C3 witness: the template names a field the record lacks, and a field
\* whose value holds a placeholder, which the returned string keeps
C3_Witness ==
    /\ BuildTextReturned
    /\ args.block.text_template.toks = <<FieldTok("x"), LitTok("a"), FieldTok("y")>>
    /\ args.row = <<Item("y", <<"{", "x", "}">>)>>
    /\ result = [err |-> "", text |-> <<"a", "{", "x", "}">>]

\* the default layout's destination block was built for a record without destination
DestinationMissing ==
    /\ pc = "returned"
    /\ args.block = DestinationBlock
    /\ "destination" \notin Keys(args.row)

\* C4 as stated: for a record without destination the destination block
\* renders "Destination: ", the trailing space kept, and no error is raised
C4_Original ==
    DestinationMissing
        => /\ result.err = ""
           /\ result.text = <<"D", "e", "s", "t", "i", "n", "a", "t", "i", "o", "n", ":", " ">>

\* C4 as amended: for a record without destination the destination block
\* renders "Destination:", the trailing space trimmed, and no error is raised
C4_DestinationLineIsTrimmed ==
    DestinationMissing
        => /\ result.err = ""
           /\ result.text = <<"D", "e", "s", "t", "i", "n", "a", "t", "i", "o", "n", ":">>

\* C4 witness: the destination block was built for the record without destination
C4_Witness ==
    /\ DestinationMissing
    /\ args.row = <<Item("pallet_id", Str_PAL001), Item("contents", Str_Widget)>>
    /\ Len(result.text) = 12

(***************************************************************************)
(* wrap_text_to_width on its own.                                          *)
(***************************************************************************)
WrapTexts == SeqsUpTo({"a", " ", "\n"}, MaxTextLen)

\* "M" measures m / GlyphDen pixels: the small widths, and 20 pixels
WrapFonts == {Font(TRUE, 12, m) : m \in (1..MaxGlyph) \cup {20 * GlyphDen}}

WrapMaxWidths == {None} \cup {Some(w) : w \in (0..MaxWidth) \cup {200}}

InitWrap ==
    /\ pc = "call"
    /\ args \in [text : WrapTexts, font : WrapFonts, max_width : WrapMaxWidths]
    /\ result = <<>>
    /\ template = NoTemplate
    /\ dpi = DEFAULT_DPI
    /\ env = NoEnv
    /\ csv = <<>>
    /\ layout = NoLayout
    /\ row = <<>>
    /\ image = NoImage
    /\ files = {}
    /\ log = <<>>
    /\ error = NoError

\* text = wrap_text_to_width(text, font, block.max_width)
CallWrap ==
    /\ pc = "call"
    /\ result' = wrap_text_to_width(args.text, args.font, args.max_width)
    /\ pc' = "returned"
    /\ UNCHANGED <<template, dpi, env, csv, layout, row, image, files, log, error, args>>

\* the text a first call returned is wrapped again, same font and max_width
CallWrapAgain ==
    /\ pc = "returned"
    /\ args' = [args EXCEPT !.text = result.text]
    /\ result' = wrap_text_to_width(result.text, args.font, args.max_width)
    /\ pc' = "rewrapped"
    /\ UNCHANGED <<template, dpi, env, csv, layout, row, image, files, log, error>>

SpecWrap == InitWrap /\ [][CallWrap \/ CallWrapAgain]_vars

\* wrap_text_to_width went past its first return: max_width > 0, text not empty
Wrapped ==
    /\ pc = "returned"
    /\ ~args.max_width.none
    /\ args.max_width.v > 0
    /\ args.text # <<>>

\* b = max(floor(w / (gn / gd)), 1): b is 1 when not even one glyph of width
\* gn / gd fits in w, and otherwise the largest count of glyphs that fits
IsBudget(b, w, gn, gd) ==
    IF w * gd < gn THEN b = 1
    ELSE b * gn <= w * gd /\ (b + 1) * gn > w * gd

\* C10 as stated: for every max_width > 0 and reference-glyph width g > 0
\* the budget is max(floor(max_width / g), 1)
C10_Original ==
    Wrapped => IsBudget(result.wrap_width, args.max_width.v, args.font.m, GlyphDen)

\* C10 as amended: the budget is max(floor(max_width / max(g, 1)), 1), which
\* is max(floor(max_width / g), 1) for every g >= 1; max_width 200 with
\* g = 20 gives 10
C10_BudgetClampsGlyphWidth ==
    Wrapped
        => /\ IsBudget(result.wrap_width, args.max_width.v, Max(args.font.m, GlyphDen), GlyphDen)
           /\ (args.max_width.v = 200 /\ args.font.m = 20 * GlyphDen) => result.wrap_width = 10

\* C10 witness: max_width 200 with a 20 pixel "M" was wrapped at a budget of 10
C10_Witness ==
    /\ Wrapped
    /\ args.max_width.v = 200
    /\ args.font.m = 20 * GlyphDen
    /\ result.wrap_width = 10

(***************************************************************************)
(* Properties of the wrapped text.  The lines of a text are what the       *)
(* drawing call draws: the pieces between its "\n" characters.             *)
(***************************************************************************)
\* text.split("\n")
RECURSIVE Lines(_)
Lines(s) ==
    LET k == FirstNewline(s, 1)
    IN  IF k = 0 THEN <<s>>
        ELSE <<SubSeq(s, 1, k - 1)>> \o Lines(SubSeq(s, k + 1, Len(s)))

\* the second call of wrap_text_to_width returned
Rewrapped ==
    pc = "rewrapped"

\* C11: wrapping is idempotent: wrapping the text a first call returned, with
\* the same font and max_width, returns that text again
C11_WrapIsIdempotent ==
    Rewrapped => result.text = args.text

\* the non-whitespace characters of s, in order
Ink(s) == SelectSeq(s, LAMBDA c : c \notin Whitespace)

\* C12: with max_width set and a text that is not empty, no line of the
\* output has more characters than the budget, and a word longer than the
\* budget is broken into pieces: every character of it is kept
C12_NoLineExceedsBudget ==
    Wrapped
        => /\ \A i \in 1..Len(Lines(result.text)) :
                  Len(Lines(result.text)[i]) <= result.wrap_width
           /\ Ink(result.text) = Ink(args.text)

\* C12 witness: the word "aaa" was wrapped at a budget of 2 and came out as
\* the pieces "aa" and "a"
C12_Witness ==
    /\ Wrapped
    /\ args.text = <<"a", "a", "a">>
    /\ result.wrap_width = 2
    /\ result.text = <<"a", "a", "\n", "a">>

\* C13: wrap_text_to_width returns its text unchanged when max_width is not
\* set or the text is empty, so a text that was changed had max_width set
C13_UnchangedWithoutMaxWidth ==
    pc = "returned"
        => /\ (args.max_width.none \/ args.text = <<>>) => result.text = args.text
           /\ result.text # args.text => ~args.max_width.none

\* C13 witness: a text a budget of one character would re-break was returned
\* as it is because max_width is not set
C13_Witness ==
    /\ pc = "returned"
    /\ args.max_width.none
    /\ args.text = <<"a", " ", "a">>
    /\ result.text = args.text

\* the paragraphs of a text: its lines, a final "\n" ending the last line
\* rather than opening one more
Paragraphs(text) ==
    LET ls == Lines(text)
    IN  IF Len(ls) > 1 /\ ls[Len(ls)] = <<>> THEN SubSeq(ls, 1, Len(ls) - 1) ELSE ls

\* the output lines from..to hold the words of paragraph p and nothing else,
\* and a blank p is exactly one empty line
HoldsParagraph(out, from, to, p) ==
    /\ from <= to
    /\ Ink(Concat(SubSeq(out, from, to))) = Ink(p)
    /\ Ink(p) = <<>> => (to = from /\ out[from] = <<>>)

\* the output lines are the paragraphs' lines, paragraph after paragraph:
\* cut[i] is the last output line of paragraph i
InParagraphOrder(out, ps) ==
    \E cut \in [1..Len(ps) -> 1..Len(out)] :
        /\ cut[Len(ps)] = Len(out)
        /\ \A i \in 1..Len(ps) :
              HoldsParagraph(out, IF i = 1 THEN 1 ELSE cut[i - 1] + 1, cut[i], ps[i])

\* C14: with max_width set, each paragraph is wrapped on its own and the
\* results follow the input order: no output line holds words of two
\* paragraphs, and every blank paragraph is one empty output line in its place
C14_ParagraphsWrappedIndependently ==
    Wrapped => InParagraphOrder(Lines(result.text), Paragraphs(args.text))

\* C14 witness: "a", a blank paragraph and "a" were wrapped at a budget wide
\* enough for "a a" and came out as three lines
C14_Witness ==
    /\ Wrapped
    /\ args.text = <<"a", "\n", "\n", "a">>
    /\ result.wrap_width >= 3
    /\ Lines(result.text) = << <<"a">>, <<>>, <<"a">> >>

(***************************************************************************)
(* render_label and export_label on their own: a record is rendered and    *)
(* exported to a base path, and then rendered and exported once more.      *)
(***************************************************************************)
\* records as process() could hand them over, and records without an
\* identifier: none at all, an empty one, and the empty record
RecordNoId == <<Item("destination", Str_Dock7), Item("contents", Str_Widget)>>
RecordEmptyId == <<Item("destination", <<"D">>), Item("pallet_id", <<>>)>>
RecordEmpty == <<>>

LabelRecords == {RecordPal001, RecordNoId, RecordEmptyId, RecordEmpty, <<Item("pallet_id", Str_TooLong)>>}

\* base names process() can build: sanitised identifiers ("." is left out:
\* output_dir / "." is the output directory itself)
ExportBases ==
    {sanitise_filename(id) : id \in SeqsUpTo({"A", ".", "1"}, 3) \cup {Str_PAL001, <<"A", " ", "1">>}}
        \ {<<".">>}

\* a file left in the output directory by an earlier run
StaleImage == [NoImage EXCEPT !.qr_data = <<"o", "l", "d">>]

StaleFiles(base) ==
    { {},
      {File(PngName(base), "PNG", StaleImage, 72)},
      {File(PngName(base), "PNG", StaleImage, 72), File(PdfName(base), "PDF", StaleImage, 72),
       File(<<"k", "e", "e", "p">>, "TXT", StaleImage, 72)} }

\* a font file a template asks for
CUSTOM_FONT == "Custom.ttf"

\* SmallTemplate with a font_path, and with a line_spacing of 0 and of 7
LabelTemplates ==
    { NoTemplate, SmallTemplate,
      [SmallTemplate EXCEPT !.text_blocks = <<[IdBlock EXCEPT !.font_path = CUSTOM_FONT]>>],
      [SmallTemplate EXCEPT !.text_blocks = <<[IdBlock EXCEPT !.line_spacing = JInt(0)]>>],
      [SmallTemplate EXCEPT !.text_blocks = <<[IdBlock EXCEPT !.line_spacing = JInt(7)], IdBlock>>] }

\* each of the two font files is there or not
LabelEnvs == [fontfiles : SUBSET {DEFAULT_FONT_FALLBACK, CUSTOM_FONT}, m : {1, MaxGlyph * GlyphDen}]

InitLabel ==
    /\ pc = "call"
    /\ row \in LabelRecords
    /\ dpi \in MainDpis
    /\ env \in LabelEnvs
    /\ template \in LabelTemplates
    /\ layout = load_template(template, dpi).layout
    /\ args \in [base : ExportBases]
    /\ files \in StaleFiles(args.base)
    /\ image = NoImage
    /\ result = <<>>
    /\ csv = <<>>
    /\ log = <<>>
    /\ error = NoError

\* render_label drawing on the canvas of the call before
CallRenderOnOldCanvas ==
    /\ pc \in {"call", "exported"}
    /\ Len(result) < 2
    /\ LET r == render_label(row, layout, dpi, env)
       IN  /\ r.err = ""
           /\ image' = [r.image EXCEPT !.texts = image.texts \o r.image.texts]
           /\ pc' = "rendered"
    /\ UNCHANGED <<template, dpi, env, csv, layout, row, files, log, error, args, result>>

\* label_image = render_label(row, layout, dpi), a first and a second time
CallRender ==
    /\ pc \in {"call", "exported"}
    /\ Len(result) < 2
    /\ LET r == render_label(row, layout, dpi, env)
       IN  IF r.err # ""
           THEN /\ pc' = "raised"
                /\ error' = Raised(r.err, "render_label")
                /\ UNCHANGED image
           ELSE /\ pc' = "rendered"
                /\ image' = r.image
                /\ UNCHANGED error
    /\ UNCHANGED <<template, dpi, env, csv, layout, row, files, log, args, result>>

\* the file of that name
FileNamed(fs, name) == {f \in fs : f.name = name}

\* export_label(label_image, base_path, dpi): result records the canvas and
\* the bitmap file written from it
CallExport ==
    /\ pc = "rendered"
    /\ files' = export_label(files, image, args.base, dpi)
    /\ result' = Append(result, [image |-> image, png |-> FileNamed(files', PngName(args.base))])
    /\ pc' = "exported"
    /\ UNCHANGED <<template, dpi, env, csv, layout, row, image, log, error, args>>

SpecLabel == InitLabel /\ [][CallRender \/ CallExport]_vars

\* the first value of the record, None for the empty record
FirstValue(r) == IF r = <<>> THEN NoneV ELSE r[1].v

Written == {f \in files : f.image # StaleImage}

\* C16: a successful export_label writes exactly two files, <base>.png and
\* <base>.pdf with the base name in full, both with the configured DPI, and
\* replaces a file already there under either name
C16_ExportWritesBasePngAndPdf ==
    pc = "exported"
        => /\ Written = {File(args.base \o <<".", "p", "n", "g">>, "PNG", image, dpi),
                         File(args.base \o <<".", "p", "d", "f">>, "PDF", image, dpi)}
           /\ \A f \in files \ Written : f.name \notin {g.name : g \in Written}

ResolvedLayout == load_template(template, dpi).layout

\* C18: once resolved, the Layout keeps every field, and every field of each
\* of its TextBlocks, through all calls of render_label and export_label,
\* calls that fail included
C18_LayoutIsNeverMutated ==
    (pc # "main" /\ error.at # "load_template") => layout = ResolvedLayout

\* C18 witness: a first row was rendered and exported, the export of a second
\* one failed, and the Layout with its blocks is as it was resolved
C18_Witness ==
    /\ pc = "raised"
    /\ error.at = "export_label"
    /\ Len(log) > 0
    /\ layout = ResolvedLayout
    /\ layout.text_blocks # <<>>

(***************************************************************************)
(* vendor_invoice_sorter.move_invoice.  A path is the sequence of its      *)
(* names from the root; the filesystem is a set of nodes, and the root is  *)
(* a directory.  There are no symbolic links.                              *)
(***************************************************************************)
Node(path, kind, data) == [path |-> path, kind |-> kind, data |-> data]

IsDir(fs, path) == path = <<>> \/ \E n \in fs : n.path = path /\ n.kind = "dir"

IsFile(fs, path) == \E n \in fs : n.path = path /\ n.kind = "file"

Exists(fs, path) == IsDir(fs, path) \/ IsFile(fs, path)

\* Path.resolve() of an absolute path: "." is dropped, ".." leaves the
\* directory it follows, and the root is its own parent
RECURSIVE Resolve(_, _)
Resolve(parts, acc) ==
    IF parts = <<>> THEN acc
    ELSE IF Head(parts) = "." THEN Resolve(Tail(parts), acc)
    ELSE IF Head(parts) = ".."
         THEN Resolve(Tail(parts), IF acc = <<>> THEN acc ELSE SubSeq(acc, 1, Len(acc) - 1))
    ELSE Resolve(Tail(parts), Append(acc, Head(parts)))

\* base_dir / candidate: an absolute candidate replaces base_dir
Join(base_dir, candidate) ==
    IF candidate.abs THEN candidate.parts ELSE base_dir \o candidate.parts

\* target.relative_to(base_dir) does not raise
IsRelativeTo(target, base_dir) ==
    Len(base_dir) <= Len(target) /\ SubSeq(target, 1, Len(base_dir)) = base_dir

\* ensure_within_base(base_dir, candidate): [err, target]
ensure_within_base(base_dir, candidate) ==
    LET base == Resolve(base_dir, <<>>)
        target == Resolve(Join(base, candidate), <<>>)
    IN  IF target = base THEN [err |-> "", target |-> target]
        ELSE IF ~IsRelativeTo(target, base) THEN [err |-> "ValueError", target |-> <<>>]
        ELSE [err |-> "", target |-> target]

\* target_dir.mkdir(parents=True, exist_ok=True): [err, fs]
Mkdir(fs, target_dir) ==
    IF IsDir(fs, target_dir) THEN [err |-> "", fs |-> fs]
    ELSE IF IsFile(fs, target_dir) THEN [err |-> "FileExistsError", fs |-> fs]
    ELSE IF \E i \in 1..Len(target_dir) : IsFile(fs, SubSeq(target_dir, 1, i))
         THEN [err |-> "NotADirectoryError", fs |-> fs]
    ELSE [err |-> "",
          fs |-> fs \cup {Node(SubSeq(target_dir, 1, i), "dir", "") : i \in 1..Len(target_dir)}]

\* os.rename(src, dst) of a file: dst, when it is a file, is replaced
Rename(fs, src, dst) ==
    IF src = dst THEN fs
    ELSE LET n == CHOOSE x \in fs : x.path = src
         IN  {m \in fs : m.path \notin {src, dst}} \cup {Node(dst, "file", n.data)}

\* a move that leaves the original behind
ShutilCopy(fs, src, dst) ==
    LET n == CHOOSE x \in fs : x.path = src
    IN  [err |-> "", fs |-> {m \in fs : m.path # dst} \cup {Node(dst, "file", n.data)}]

\* shutil.move(src, dst) of a file: [err, fs]
ShutilMove(fs, src, dst) ==
    LET real_dst == IF IsDir(fs, dst) THEN Append(dst, src[Len(src)]) ELSE dst
    IN  IF IsDir(fs, dst) /\ Exists(fs, real_dst) THEN [err |-> "Error", fs |-> fs]
        ELSE IF ~IsFile(fs, src) THEN [err |-> "FileNotFoundError", fs |-> fs]
        ELSE [err |-> "", fs |-> Rename(fs, src, real_dst)]

\* what move_invoice prints
Message(kind, name, target_path) == [kind |-> kind, name |-> name, target |-> target_path]

\* move_invoice with the directories made before dry_run is looked at
MoveInvoiceMkdirFirst(fs, invoice, base_dir, destination, dry_run) ==
    LET within == ensure_within_base(base_dir, destination)
        made == Mkdir(fs, within.target)
    IN  [err |-> within.err, fs |-> IF within.err = "" THEN made.fs ELSE fs, log |-> <<>>]

\* move_invoice(invoice, base_dir, destination, dry_run=...): [err, fs, log]
move_invoice(fs, invoice, base_dir, destination, dry_run) ==
    LET within == ensure_within_base(base_dir, destination)
        target_dir == within.target
        name == invoice[Len(invoice)]
        target_path == Append(target_dir, name)
        made == Mkdir(fs, target_dir)
        moved == ShutilMove(made.fs, invoice, target_path)
    IN  IF within.err # "" THEN [err |-> within.err, fs |-> fs, log |-> <<>>]
        ELSE IF dry_run
             THEN [err |-> "", fs |-> fs, log |-> <<Message("dry-run", name, target_path)>>]
        ELSE IF made.err # "" THEN [err |-> made.err, fs |-> fs, log |-> <<>>]
        ELSE [err |-> moved.err, fs |-> moved.fs,
              log |-> <<Message("moving", name, target_path)>>]

\* the directory the sorter works in, args.source resolved
SOURCE_DIR == <<"srv", "invoices">>

Dest(abs, parts) == [abs |-> abs, parts |-> parts]

\* rule destinations: inside the base directory, the base directory itself,
\* and outside it
Destinations ==
    { Dest(FALSE, <<"VendorA">>), Dest(FALSE, <<"VendorA", "2024">>),
      Dest(FALSE, <<>>), Dest(FALSE, <<"VendorA", "..">>),
      Dest(FALSE, <<"..", "invoices", "VendorA">>),
      Dest(FALSE, <<"..">>), Dest(FALSE, <<"..", "other">>),
      Dest(TRUE, <<"srv", "invoices", "VendorA">>), Dest(TRUE, <<"etc">>) }

InvoiceNames == {"sample.pdf", "b.xls"}

\* the directories down to SOURCE_DIR
BaseTree == {Node(<<"srv">>, "dir", ""), Node(SOURCE_DIR, "dir", "")}

\* the filesystems a call can find, for an invoice of that name: the invoice
\* in the base directory with the destination missing, present, occupied by
\* an older invoice or by a directory of the invoice's name, or a file where
\* the destination directory should be; and the invoice already in VendorA
Filesystems(name) ==
    LET inv == Node(Append(SOURCE_DIR, name), "file", "invoice")
        vendor == Append(SOURCE_DIR, "VendorA")
    IN  { [invoice |-> inv.path, fs |-> BaseTree \cup {inv}],
          [invoice |-> inv.path, fs |-> BaseTree \cup {inv, Node(vendor, "dir", "")}],
          [invoice |-> inv.path,
           fs |-> BaseTree \cup {inv, Node(vendor, "dir", ""), Node(Append(vendor, name), "file", "older")}],
          [invoice |-> inv.path,
           fs |-> BaseTree \cup {inv, Node(vendor, "dir", ""), Node(Append(vendor, name), "dir", "")}],
          [invoice |-> inv.path, fs |-> BaseTree \cup {inv, Node(vendor, "file", "older")}],
          [invoice |-> Append(vendor, name),
           fs |-> BaseTree \cup {Node(vendor, "dir", ""), Node(Append(vendor, name), "file", "invoice")}] }

InitInvoice ==
    /\ pc = "call"
    /\ \E name \in InvoiceNames : \E f \in Filesystems(name) :
          /\ files = f.fs
          /\ args \in [invoice : {f.invoice}, base_dir : {SOURCE_DIR},
                       destination : Destinations, dry_run : BOOLEAN]
    /\ log = <<>>
    /\ error = NoError
    /\ result = <<>>
    /\ template = NoTemplate
    /\ dpi = DEFAULT_DPI
    /\ env = NoEnv
    /\ csv = <<>>
    /\ layout = NoLayout
    /\ row = <<>>
    /\ image = NoImage

\* move_invoice(invoice, source_dir, destination, dry_run=args.dry_run)
CallMoveInvoice ==
    /\ pc = "call"
    /\ LET r == move_invoice(files, args.invoice, args.base_dir, args.destination, args.dry_run)
       IN  /\ files' = r.fs
           /\ log' = log \o r.log
           /\ error' = IF r.err # "" THEN Raised(r.err, "move_invoice") ELSE error
           /\ pc' = IF r.err # "" THEN "raised" ELSE "returned"
    /\ UNCHANGED <<template, dpi, env, csv, layout, row, image, args, result>>

SpecInvoice == InitInvoice /\ [][CallMoveInvoice]_vars

\* C19: move_invoice with dry_run=True changes nothing in the filesystem: the
\* invoice stays at its path and no directory is created
C19_DryRunLeavesFilesystem ==
    [][(pc = "call" /\ args.dry_run)
          => /\ files' = files
             /\ IsFile(files', args.invoice)]_vars

\* the directory the destination names, and the invoice's place in it
TargetDir == Resolve(Join(args.base_dir, args.destination), <<>>)
TargetPath == Append(TargetDir, args.invoice[Len(args.invoice)])

\* C19 witness: a dry run for a destination that does not exist returned,
\* the destination directory is still missing and the invoice is in place
C19_Witness ==
    /\ pc = "returned"
    /\ args.dry_run
    /\ args.destination = Dest(FALSE, <<"VendorA">>)
    /\ ~Exists(files, TargetDir)
    /\ IsFile(files, args.invoice)
    /\ Len(log) = 1 /\ log[1].kind = "dry-run"

\* move_invoice with dry_run=False returned
Moved == pc = "returned" /\ ~args.dry_run

\* C20 as stated: after move_invoice with dry_run=False the destination
\* directory exists, the invoice is at <base>/<destination>/<name> and no
\* file is left at the invoice's original path
C20_Original ==
    Moved
        => /\ IsDir(files, TargetDir)
           /\ IsFile(files, TargetPath)
           /\ ~IsFile(files, args.invoice)

\* where the invoice is after the move: inside a directory that already had
\* the target path's name, and else at the target path
FinalPath ==
    IF IsDir(files, TargetPath) THEN Append(TargetPath, args.invoice[Len(args.invoice)])
    ELSE TargetPath

\* C20 as amended: the destination directory exists, the invoice is at
\* <base>/<destination>/<name> (inside it when that is a directory), and no
\* file is left at the original path unless that is where the move leads
C20_InvoiceMovedIntoDestination ==
    Moved
        => /\ IsDir(files, TargetDir)
           /\ \E n \in files : n = Node(FinalPath, "file", "invoice")
           /\ args.invoice # FinalPath => ~Exists(files, args.invoice)

\* C20 witness: the invoice of the base directory was moved into VendorA/2024,
\* which did not exist, and is gone from the base directory
C20_Witness ==
    /\ Moved
    /\ args.destination = Dest(FALSE, <<"VendorA", "2024">>)
    /\ args.invoice = Append(SOURCE_DIR, "sample.pdf")
    /\ IsDir(files, SOURCE_DIR \o <<"VendorA", "2024">>)
    /\ Node(SOURCE_DIR \o <<"VendorA", "2024", "sample.pdf">>, "file", "invoice") \in files
    /\ ~Exists(files, args.invoice)

(***************************************************************************)
(* Fonts and line spacing of the rendered blocks.                          *)
(***************************************************************************)
\* the file get_font asks for
FontSource(block) == IF block.font_path = "" THEN DEFAULT_FONT_FALLBACK ELSE block.font_path

\* the environment with every font file in place
WithAllFonts == [env EXCEPT !.fontfiles = {DEFAULT_FONT_FALLBACK, CUSTOM_FONT}]

\* C21: a font file that cannot be loaded never makes a render fail: the
\* render fails only when it fails with every font in place as well, and a
\* block whose file is missing is drawn with the built-in bitmap face
C21_MissingFontNeverFails ==
    pc # "call"
        => /\ pc = "raised" => render_label(row, layout, dpi, WithAllFonts).err = error.exc
           /\ pc # "raised" =>
                 /\ render_label(row, layout, dpi, WithAllFonts).err = ""
                 /\ Len(image.texts) = Len(layout.text_blocks)
                 /\ \A i \in 1..Len(image.texts) :
                       image.texts[i].font.truetype
                           = (FontSource(layout.text_blocks[i]) \in env.fontfiles)

\* C21 witness: the scenario's record was rendered with a template that asks
\* for a font file that is not there, and its block was drawn with the
\* built-in face
C21_Witness ==
    /\ pc = "rendered"
    /\ row = RecordPal001
    /\ env.fontfiles = {DEFAULT_FONT_FALLBACK}
    /\ layout.text_blocks # <<>>
    /\ layout.text_blocks[1].font_path = CUSTOM_FONT
    /\ image.texts[1].font = Font(FALSE, 0, env.m)
    /\ image.texts[1].text # <<>>

\* C24: a block is drawn with its explicit line_spacing whenever the template
\* gives one, 0 included, and otherwise with max(floor(0.2 x font size), 4)
\* of the font in use (4 for the built-in face), never less than 4
C24_LineSpacing ==
    pc \in {"rendered", "exported"}
        => \A i \in 1..Len(image.texts) :
              LET block == layout.text_blocks[i]
                  drawn == image.texts[i]
              IN  IF ~block.line_spacing.none THEN drawn.spacing = block.line_spacing.v
                  ELSE /\ drawn.spacing >= 4
                       /\ drawn.font.truetype =>
                             /\ 5 * drawn.spacing <= Max(drawn.font.size, 20)
                             /\ 5 * (drawn.spacing + 1) > Max(drawn.font.size, 20)

\* C22: within one run two rows write the same file names only if they carry
\* the same identifier: a file that export_label replaces was written from a
\* row of the same pallet_id
C22_DistinctIdsNeverCollide ==
    [][(pc = "export" /\ pc' = "process")
          => \A f \in files :
                f.name \in {PngName(BasePath(row)), PdfName(BasePath(row))}
                    => f.image.qr_data = Lookup(row, "pallet_id")]_vars

(***************************************************************************)
(* The order of composition.  An operation paints over what the earlier    *)
(* ones left: image.paste without a mask and the text drawing are opaque.  *)
(***************************************************************************)
\* the operation whose pixels show where the operations of S overlap
OnTop(S) == CHOOSE i \in S : \A j \in S : j <= i

RowRagged == <<Item("pallet_id", <<>>), Item("destination", <<"D">>), Item(RESTKEY, <<"x">>)>>
RowRaggedWithId == <<Item("pallet_id", <<"C", "3">>), Item(RESTKEY, <<"x">>)>>

RowsCsvs == SeqsUpTo(RawRows \cup {RowRagged, RowRaggedWithId}, MaxRows)

InitRows ==
    /\ pc = "main"
    /\ template = NoTemplate
    /\ dpi = DEFAULT_DPI
    /\ env \in MainEnvs
    /\ csv \in RowsCsvs
    /\ args = [csv |-> csv]
    /\ layout = NoLayout
    /\ row = <<>>
    /\ image = NoImage
    /\ files = {}
    /\ log = <<>>
    /\ error = NoError
    /\ result = <<>>

SpecRows == InitRows /\ [][Next]_vars

\* the identifier of a CSV row: its pallet_id column or else its pallet
\* column, names trimmed and in lower case, values trimmed
IdOf(raw) ==
    LET named(n) == {i \in 1..Len(raw) : raw[i].k # RESTKEY /\ NormKey(raw[i].k) = n}
        value(n) == IF named(n) = {} THEN NoneV
                    ELSE LET v == raw[CHOOSE i \in named(n) : \A j \in named(n) : j <= i].v
                         IN  IF v = NoneV THEN v ELSE Strip(v)
    IN  IF Truthy(value("pallet_id")) THEN value("pallet_id") ELSE value("pallet")

\* the rows of the file load_rows has read so far
RowsRead == Len(args.csv) - Len(csv)

\* C25: every record load_rows yields has a non-empty pallet_id, that of the
\* pallet_id column or else of the pallet alias; a row with neither is
\* skipped with a message and not rendered, and the rows after it are still
\* yielded: load_rows never ends the run, and each row read is either the one
\* being rendered or has its message, "skipped" exactly for the rows
\* without an identifier
C25_RowsWithoutIdAreSkipped ==
    /\ error.at # "load_rows"
    /\ pc \in {"render", "export"} =>
          /\ Truthy(DictGet(row, "pallet_id"))
          /\ Lookup(row, "pallet_id") = IdOf(args.csv[RowsRead])
          /\ Len(log) = RowsRead - 1
    /\ pc \in {"process", "done"} => Len(log) = RowsRead
    /\ pc = "done" => RowsRead = Len(args.csv)
    /\ \A i \in 1..Len(log) :
          log[i].kind = IF Truthy(IdOf(args.csv[i])) THEN "generated" ELSE "skipped"

(***************************************************************************)
(* mass_print.py.  The PDFs of the folder are named by number, n standing  *)
(* for "n.pdf"; 0 is a name of the log that is no longer in the folder.    *)
(* args holds what the script computes before its loop (pdfs, printed);    *)
(* result holds the loop's variables and what reached the printer and the  *)
(* log file: sent counts the calls of print_once per file, spooled those   *)
(* that returned, logfile is what the run appended to LOG_FILE.            *)
(***************************************************************************)
MaxPdfs == 3

MAX_RETRIES == 2
DRY_RUN == FALSE

\* sorted(...) of a set of names
RECURSIVE Sorted(_)
Sorted(S) ==
    IF S = {} THEN <<>>
    ELSE LET least == CHOOSE x \in S : \A y \in S : x <= y
         IN  <<least>> \o Sorted(S \ {least})

InitMassPrint ==
    /\ pc = "loop"
    /\ args \in [pdfs : {Sorted(S) : S \in SUBSET (1..MaxPdfs)}, printed : SUBSET (0..MaxPdfs)]
    /\ result = [idx |-> 0, attempt |-> 0,
                 sent |-> [n \in 1..MaxPdfs |-> 0], spooled |-> [n \in 1..MaxPdfs |-> 0],
                 logfile |-> <<>>]
    /\ log = <<>>
    /\ error = NoError
    /\ files = {}
    /\ template = NoTemplate
    /\ dpi = DEFAULT_DPI
    /\ env = NoEnv
    /\ csv = <<>>
    /\ layout = NoLayout
    /\ row = <<>>
    /\ image = NoImage

\* a line of the script's output
Line(kind, name) == [kind |-> kind, name |-> name]

\* for idx, name in enumerate(pdfs, 1): the next file, up to the while loop
NextPdf ==
    /\ pc = "loop"
    /\ result.idx < Len(args.pdfs)
    /\ LET name == args.pdfs[result.idx + 1]
       IN  IF name \in args.printed
           THEN /\ log' = Append(log, Line("skip", name))
                /\ result' = [result EXCEPT !.idx = @ + 1]
                /\ pc' = "loop"
           ELSE /\ log' = Append(log, Line("printing", name))
                /\ result' = [result EXCEPT !.idx = @ + 1, !.attempt = 0]
                /\ pc' = IF DRY_RUN THEN "loop" ELSE "try"
    /\ UNCHANGED <<template, dpi, env, csv, layout, row, image, files, error, args>>

\* the loop is over: print("Done.")
Finish ==
    /\ pc = "loop"
    /\ result.idx = Len(args.pdfs)
    /\ log' = Append(log, Line("done", 0))
    /\ pc' = "done"
    /\ UNCHANGED <<template, dpi, env, csv, layout, row, image, files, error, args, result>>

\* one retry more than MAX_RETRIES
GivesUpLate(attempt) == attempt > MAX_RETRIES + 1

\* if attempt <= MAX_RETRIES: continue; otherwise the file is given up
GivesUp(attempt) == attempt > MAX_RETRIES

\* except OSError: the warning, then the retry or the error line and the break
Except(name, attempt) ==
    /\ log' = IF GivesUp(attempt)
              THEN log \o <<Line("warn", name), Line("error", name)>>
              ELSE Append(log, Line("warn", name))
    /\ pc' = IF GivesUp(attempt) THEN "loop" ELSE "try"

\* a pass of the while loop: print_once returns and the name is logged
PrintOk ==
    /\ pc = "try"
    /\ LET name == args.pdfs[result.idx]
       IN  /\ result' = [result EXCEPT !.attempt = @ + 1, !.sent[name] = @ + 1,
                                       !.spooled[name] = @ + 1,
                                       !.logfile = Append(@, name)]
           /\ pc' = "loop"
    /\ UNCHANGED <<template, dpi, env, csv, layout, row, image, files, log, error, args>>

\* a pass of the while loop: print_once raises OSError
PrintFails ==
    /\ pc = "try"
    /\ LET name == args.pdfs[result.idx]
       IN  /\ result' = [result EXCEPT !.attempt = @ + 1, !.sent[name] = @ + 1]
           /\ Except(name, result.attempt + 1)
    /\ UNCHANGED <<template, dpi, env, csv, layout, row, image, files, error, args>>

\* a pass of the while loop: print_once returns, then opening or writing
\* LOG_FILE raises OSError
LogFails ==
    /\ pc = "try"
    /\ LET name == args.pdfs[result.idx]
       IN  /\ result' = [result EXCEPT !.attempt = @ + 1, !.sent[name] = @ + 1,
                                       !.spooled[name] = @ + 1]
           /\ Except(name, result.attempt + 1)
    /\ UNCHANGED <<template, dpi, env, csv, layout, row, image, files, error, args>>

NextMassPrint == NextPdf \/ Finish \/ PrintOk \/ PrintFails \/ LogFails

\* the script is one sequential program: a step that can be taken is taken
SpecMassPrint == InitMassPrint /\ [][NextMassPrint]_vars /\ WF_vars(NextMassPrint)

\* the files the loop is through with: every one before pdfs[idx], and
\* pdfs[idx] itself once the while loop has been left
Considered ==
    {args.pdfs[i] : i \in 1..(IF pc = "try" THEN result.idx - 1 ELSE result.idx)}

\* the names of the "skip" and "printing" lines of the output, in order
Announced == SelectSeq(log, LAMBDA l : l.kind \in {"skip", "printing"})

AttemptsBounded ==
    /\ \A n \in 1..MaxPdfs : result.sent[n] <= MAX_RETRIES + 1
    /\ \A n \in Considered : n \notin args.printed => result.sent[n] >= 1
    /\ pc = "try" => result.sent[args.pdfs[result.idx]] = result.attempt

ConsideredInSortedOrder ==
    /\ Len(Announced) = Len(args.pdfs)
    /\ \A i \in 1..Len(Announced) : Announced[i].name = args.pdfs[i]
    /\ \A i, j \in 1..Len(Announced) : i < j => Announced[i].name < Announced[j].name
    /\ {args.pdfs[i] : i \in 1..Len(args.pdfs)} = Considered

\* C26: every PDF that is not in the log is sent to the printer at least
\* once and at most MAX_RETRIES + 1 times, and whatever attempts fail the run
\* reaches "Done." after it considered every PDF in sorted order.
C26_EveryPdfTriedAndRunEnds ==
    /\ []AttemptsBounded
    /\ [](pc = "done" => ConsideredInSortedOrder /\ log[Len(log)].kind = "done")
    /\ <>(pc = "done")

\* a finished run with a file given up after MAX_RETRIES + 1 attempts and
\* a later file printed at the first attempt
C26_Witness ==
    /\ pc = "done"
    /\ \E m, n \in Considered :
          /\ m < n
          /\ result.sent[m] = MAX_RETRIES + 1 /\ result.spooled[m] = 0
          /\ result.sent[n] = 1 /\ result.spooled[n] = 1

\* C27: a file whose name is in the log is never sent to the printer, a
\* name is appended to the log only after print_once returned for it, and
\* in one run no file is successfully sent more than once, even if appending
\* to the log raises OSError.
C27_ResumeSafe ==
    /\ \A n \in 1..MaxPdfs : n \in args.printed => result.sent[n] = 0
    /\ \A i \in 1..Len(result.logfile) : result.spooled[result.logfile[i]] >= 1
    /\ \A n \in 1..MaxPdfs : result.spooled[n] <= 1

====
